---------------------------- MODULE Spec2Model ----------------------------
(***************************************************************************)
(* Model of the edge weather handler (src/main.rs).                        *)
(*                                                                         *)
(* One invocation of `main` handles one request.  The handler is modelled  *)
(* as a sequence of steps (method check, path dispatch, geo lookup, query  *)
(* parsing, API-key read, upstream send, JSON decode, view generation) so  *)
(* that the order of its side effects can be stated.  An invocation ends   *)
(* in one of three ways: `main` returns Ok(response), `main` returns       *)
(* Err(e) through the `?` operator, or the invocation panics (`unwrap` on  *)
(* None, `panic!`, or an out-of-range index).                              *)
(*                                                                         *)
(* Floating point values (f32) are represented in tenths: 206 is 20.6.     *)
(* Text that the code only copies is a TLA+ string; the weather            *)
(* description, from which quote characters are removed, is a sequence of  *)
(* pieces, one piece per quote character or run of other characters.       *)
(***************************************************************************)
EXTENDS Integers, Sequences, FiniteSets, TLC

\* ------------------------------------------------------------------ bounds

\* Longest `daily` sequence an upstream body carries in the model.
MaxDaily == 5

\* ------------------------------------------------------- program constants

StatusOK == 200
StatusNotFound == 404
StatusMethodNotAllowed == 405

MethodNotAllowedBody == "This method is not allowed"
NotFoundBody == "The page you requested could not be found"
BACKEND_NAME == "api.openweathermap.org"
DefaultUnits == "metric"

\* ---------------------------------------------------------------- inputs

Methods == {"GET", "POST", "HEAD", "DELETE"}

Paths == {"/", "/bg-image.jpg", "/style.css", "/feather.min.js",
          "/does-not-exist", "/style.css/", "/index.html", ""}

\* req.get_client_ip_addr(): None, or the address of the client.
ClientIps == {"none", "192.0.2.1", "198.51.100.7", "203.0.113.9"}

\* geo_lookup(ip): None for an address the database does not know.
GeoDb(ip) ==
    CASE ip = "192.0.2.1" ->
           [found |-> TRUE, latitude |-> 45, longitude |-> 9, city |-> "Milan"]
      [] ip = "198.51.100.7" ->
           [found |-> TRUE, latitude |-> -45, longitude |-> 170, city |-> "Dunedin"]
      [] OTHER ->
           [found |-> FALSE, latitude |-> 0, longitude |-> 0, city |-> ""]

NoLocation == [found |-> FALSE, latitude |-> 0, longitude |-> 0, city |-> ""]

\* Local::now().date(): the month and the short weekday name are what the
\* handler reads from it.
LocalDates == {[month |-> 1, weekday |-> "Mon", text |-> "15 January 2024"],
               [month |-> 4, weekday |-> "Mon", text |-> "15 April 2024"],
               [month |-> 7, weekday |-> "Mon", text |-> "15 July 2024"],
               [month |-> 10, weekday |-> "Tue", text |-> "15 October 2024"]}

NoQuery == [kind |-> "unset", val |-> ""]

NoDate == [month |-> 0, weekday |-> "", text |-> ""]

\* The query string as deserialized into QueryParams: the `units` field is
\* absent, present with a value, or the query string does not deserialize.
QueryInputs == {[kind |-> "absent", val |-> ""],
                [kind |-> "present", val |-> "metric"],
                [kind |-> "present", val |-> "imperial"],
                [kind |-> "present", val |-> "bogus"],
                [kind |-> "present", val |-> "Metric"],
                [kind |-> "malformed", val |-> ""]}

\* Dictionary::open("weather_auth").get("key")
KeyInputs == {[some |-> FALSE, val |-> ""], [some |-> TRUE, val |-> "k3y"]}

\* Upstream weather conditions.
Clear == [description |-> <<"clear sky">>, icon |-> "01d"]
Rain == [description |-> <<"light rain", "\"">>, icon |-> "10n"]

CurrentReports ==
    {[temp |-> 206, wind_speed |-> 31, humidity |-> 550, weather |-> <<Clear>>],
     [temp |-> -37, wind_speed |-> 120, humidity |-> 800, weather |-> <<Rain, Clear>>],
     [temp |-> 5, wind_speed |-> 0, humidity |-> 100, weather |-> <<>>]}

DailyReports ==
    {[dt |-> 1718064000, temp |-> [day |-> 206], weather |-> <<Clear>>],
     [dt |-> 1718236800, temp |-> [day |-> -37], weather |-> <<Rain, Clear>>],
     [dt |-> 1718409600, temp |-> [day |-> 194], weather |-> <<>>]}

MinutelySeqs == {<<>>, <<[precipitation |-> 12]>>}

DailySeqs == UNION {[1..n -> DailyReports] : n \in 0..MaxDaily}

\* Every body that deserializes into APIResponse.
APIResponses ==
    [current : CurrentReports, daily : DailySeqs, minutely : MinutelySeqs]

NoAPIResponse ==
    [current |-> [temp |-> 0, wind_speed |-> 0, humidity |-> 0, weather |-> <<>>],
     daily |-> <<>>, minutely |-> <<>>]

\* An upstream body: JSON of the expected shape, or anything else.
Bodies == {[json |-> TRUE, value |-> a] : a \in APIResponses}
            \cup {[json |-> FALSE, value |-> NoAPIResponse]}

UpstreamStatuses == {200, 401}

NoBeresp == [status |-> 0, body |-> [json |-> FALSE, value |-> NoAPIResponse]]

NoUrl == [host |-> "", lat |-> 0, lon |-> 0, appid |-> "", units |-> ""]

NoBody == [kind |-> "none"]
NoResp == [status |-> 0, ctype |-> "none", body |-> NoBody]

VARIABLES
    method,        \* req.get_method()
    path,          \* req.get_path()
    pc,            \* position of the handler
    route,         \* arm of the path match taken
    outcome,       \* "running", "ok" (Ok(resp)), "err" (Err(e)), "panic"
    fault,         \* where the Err or the panic came from
    resp,          \* the response main returned
    client_ip,     \* req.get_client_ip_addr(), "unset" until it is read
    query,         \* the deserialized QueryParams
    location,      \* result of geo_lookup
    local,         \* Local::now().date()
    units,         \* units token
    url,           \* URL of the backend request
    beresp,        \* backend response
    api_response,  \* decoded APIResponse
    geoLookups,    \* calls of geo_lookup
    queryParses,   \* calls of req.get_query
    keyReads,      \* calls of get_api_key
    fetches,       \* calls of bereq.send
    views          \* calls of generate_view

vars == <<method, path, pc, route, outcome, fault, resp, client_ip, query,
          location, local, units, url, beresp, api_response, geoLookups,
          queryParses, keyReads, fetches, views>>

\* ------------------------------------------------- helpers (weather_helpers)

\* weather_helpers::get_season: northern-hemisphere table, inverted for a
\* negative latitude.
Opposite(season) ==
    CASE season = "Winter" -> "Summer"
      [] season = "Summer" -> "Winter"
      [] season = "Spring" -> "Autumn"
      [] OTHER -> "Spring"

NorthernSeason(month) ==
    CASE month \in {12, 1, 2} -> "Winter"
      [] month \in {3, 4, 5} -> "Spring"
      [] month \in {6, 7, 8} -> "Summer"
      [] OTHER -> "Autumn"

get_season(loc, date) ==
    IF loc.latitude < 0 THEN Opposite(NorthernSeason(date.month))
    ELSE NorthernSeason(date.month)

\* weather_helpers::datetime_to_day: weekday of an epoch timestamp
\* (1 January 1970 was a Thursday).
WeekdayNames == <<"Sun", "Mon", "Tue", "Wed", "Thu", "Fri", "Sat">>

datetime_to_day(dt) == WeekdayNames[(((dt \div 86400) + 4) % 7) + 1]

\* weather_helpers::weekday_full
weekday_full(short) ==
    CASE short = "Mon" -> "Monday"
      [] short = "Tue" -> "Tuesday"
      [] short = "Wed" -> "Wednesday"
      [] short = "Thu" -> "Thursday"
      [] short = "Fri" -> "Friday"
      [] short = "Sat" -> "Saturday"
      [] OTHER -> "Sunday"

\* weather_helpers::get_feather_weather_icon: total, with a default icon.
get_feather_weather_icon(code) ==
    CASE code = "01d" -> "sun"
      [] code = "01n" -> "moon"
      [] code \in {"09d", "09n", "10d", "10n"} -> "cloud-rain"
      [] code \in {"13d", "13n"} -> "cloud-snow"
      [] OTHER -> "cloud"

\* ------------------------------------------------------- pure parts of main

\* A method test that lets HEAD through as well.
IsGetOrHead(m) == m \in {"GET", "HEAD"}

\* req.get_method() != Method::GET, negated.
IsGet(m) == m = "GET"

\* A match that serves the weather view for "/index.html" too.
RouteIndexAlias(p) ==
    CASE p \in {"/", "/index.html"} -> "root"
      [] p = "/bg-image.jpg" -> "bg"
      [] p = "/style.css" -> "css"
      [] p = "/feather.min.js" -> "js"
      [] OTHER -> "notfound"

\* The arms of `match req.get_path()`: exact string comparison.
Route(p) ==
    CASE p = "/" -> "root"
      [] p = "/bg-image.jpg" -> "bg"
      [] p = "/style.css" -> "css"
      [] p = "/feather.min.js" -> "js"
      [] OTHER -> "notfound"

\* A resolver that falls back to the default for an unrecognized value.
ResolveUnitsValidated(q) ==
    IF q.kind = "present" /\ q.val \in {"metric", "imperial"} THEN q.val
    ELSE DefaultUnits

\* `match query.units { Some(units) => units, None => "metric" }`
ResolveUnits(q) == IF q.kind = "present" THEN q.val ELSE DefaultUnits

\* `units == "metric"`
IsMetric(u) == u = "metric"

\* The format! of the backend URL: the four values are written as they are.
BuildUrl(loc, key, u) ==
    [host |-> BACKEND_NAME, lat |-> loc.latitude, lon |-> loc.longitude,
     appid |-> key, units |-> u]

\* `x as i32` for an f32 x held in tenths: the fraction is dropped, towards
\* zero.
AsI32(t) == IF t >= 0 THEN t \div 10 ELSE -((-t) \div 10)

\* `.replace("\"", "")` on a description.
RECURSIVE StripQuotes(_)
StripQuotes(d) ==
    IF d = <<>> THEN <<>>
    ELSE IF Head(d) = "\"" THEN StripQuotes(Tail(d))
    ELSE <<Head(d)>> \o StripQuotes(Tail(d))

\* A NextDay whose weekday is read from the entry before (index i, not i + 1).
NextDayDtOfPrevious(api, i) ==
    [day |-> datetime_to_day(api.daily[i + 1].dt),
     temp |-> AsI32(api.daily[i + 2].temp.day),
     icon |-> get_feather_weather_icon(api.daily[i + 2].weather[1].icon)]

\* One NextDay, from the daily report at Rust index i + 1 (TLA+ index i + 2).
NextDay(api, i) ==
    [day |-> datetime_to_day(api.daily[i + 2].dt),
     temp |-> AsI32(api.daily[i + 2].temp.day),
     icon |-> get_feather_weather_icon(api.daily[i + 2].weather[1].icon)]

\* `for i in 0..3 { next_days.push(...) }`
NextDays(api) == [k \in 1..3 |-> NextDay(api, k - 1)]

\* The first index of the loop that is out of range, if any.
DayFault(api, i) ==
    IF Len(api.daily) < i + 2 THEN "daily_index"
    ELSE IF Len(api.daily[i + 2].weather) = 0 THEN "weather_index"
    ELSE "none"

\* The panic generate_view runs into, in evaluation order: the loop over the
\* next days, then minutely[0], then current.weather[0].
ViewFault(api) ==
    IF DayFault(api, 0) # "none" THEN DayFault(api, 0)
    ELSE IF DayFault(api, 1) # "none" THEN DayFault(api, 1)
    ELSE IF DayFault(api, 2) # "none" THEN DayFault(api, 2)
    ELSE IF Len(api.minutely) = 0 THEN "minutely_index"
    ELSE IF Len(api.current.weather) = 0 THEN "weather_index"
    ELSE "none"

\* The TemplateContext, for a response generate_view does not panic on.
Context(api, loc, date, u) ==
    [day |-> weekday_full(date.weekday),
     day_short |-> date.weekday,
     date |-> date.text,
     city |-> loc.city,
     temp |-> AsI32(api.current.temp),
     rain |-> api.minutely[1].precipitation,
     wind |-> api.current.wind_speed,
     humidity |-> api.current.humidity,
     description |-> StripQuotes(api.current.weather[1].description),
     icon |-> get_feather_weather_icon(api.current.weather[1].icon),
     next_days |-> NextDays(api),
     is_metric |-> IsMetric(u)]

\* --------------------------------------------------------------- responses

MethodNotAllowedResp ==
    [status |-> StatusMethodNotAllowed, ctype |-> "none",
     body |-> [kind |-> "text", text |-> MethodNotAllowedBody]]

NotFoundResp ==
    [status |-> StatusNotFound, ctype |-> "none",
     body |-> [kind |-> "text", text |-> NotFoundBody]]

CssResp ==
    [status |-> StatusOK, ctype |-> "text/css",
     body |-> [kind |-> "file", file |-> "static/style.css"]]

JsResp ==
    [status |-> StatusOK, ctype |-> "text/javascript",
     body |-> [kind |-> "file", file |-> "static/feather.min.js"]]

SeasonImage(season) ==
    CASE season = "Summer" -> "static/img/summer.jpg"
      [] season = "Autumn" -> "static/img/autumn.jpg"
      [] season = "Winter" -> "static/img/winter.jpg"
      [] OTHER -> "static/img/spring.jpg"

ImageResp(season) ==
    [status |-> StatusOK, ctype |-> "image/jpeg",
     body |-> [kind |-> "file", file |-> SeasonImage(season)]]

ViewResp(ctx) ==
    [status |-> StatusOK, ctype |-> "text/html; charset=utf-8",
     body |-> [kind |-> "html", context |-> ctx]]

\* ------------------------------------------------------------------ state

Init ==
    /\ method \in Methods
    /\ path \in Paths
    /\ pc = "method"
    /\ route = "none"
    /\ outcome = "running"
    /\ fault = "none"
    /\ resp = NoResp
    /\ client_ip = "unset"
    /\ query = NoQuery
    /\ location = NoLocation
    /\ local = NoDate
    /\ units = ""
    /\ url = NoUrl
    /\ beresp = NoBeresp
    /\ api_response = NoAPIResponse
    /\ geoLookups = 0
    /\ queryParses = 0
    /\ keyReads = 0
    /\ fetches = 0
    /\ views = 0

\* main returns Ok(r).
ReturnOk(r) == pc' = "done" /\ outcome' = "ok" /\ fault' = "none" /\ resp' = r

\* main returns Err(e) through `?`: no response is built by the handler.
ReturnErr(f) == pc' = "done" /\ outcome' = "err" /\ fault' = f /\ resp' = NoResp

\* unwrap on None, panic!, index out of range: the invocation is aborted.
Panic(f) == pc' = "done" /\ outcome' = "panic" /\ fault' = f /\ resp' = NoResp

\* Move on to the next step of the handler.
Goto(p) == pc' = p /\ UNCHANGED <<outcome, fault, resp>>

\* ---------------------------------------------------------------- actions

\* `if req.get_method() != Method::GET { return Ok(405) }`
CheckMethod ==
    /\ pc = "method"
    /\ IF IsGet(method) THEN Goto("dispatch")
       ELSE ReturnOk(MethodNotAllowedResp)
    /\ UNCHANGED <<method, path, client_ip, query, route, location, local, units, url, beresp,
                   api_response, geoLookups, queryParses, keyReads, fetches,
                   views>>

\* `match req.get_path()`; the static and not-found arms are whole here.
Dispatch ==
    /\ pc = "dispatch"
    /\ route' = Route(path)
    /\ CASE Route(path) = "root" -> Goto("geo")
         [] Route(path) = "bg" -> Goto("bg")
         [] Route(path) = "css" -> ReturnOk(CssResp)
         [] Route(path) = "js" -> ReturnOk(JsResp)
         [] OTHER -> ReturnOk(NotFoundResp)
    /\ UNCHANGED <<method, path, client_ip, query, location, local, units, url, beresp,
                   api_response, geoLookups, queryParses, keyReads, fetches,
                   views>>

\* `geo_lookup(req.get_client_ip_addr().unwrap()).unwrap()` and
\* `Local::now().date()` of the "/" arm.
RootGeo ==
    /\ pc = "geo"
    /\ \E ip \in ClientIps, date \in LocalDates :
         /\ client_ip' = ip
         /\ IF ip = "none"
            THEN /\ Panic("client_ip")
                 /\ UNCHANGED <<location, local, geoLookups>>
            ELSE /\ geoLookups' = geoLookups + 1
                 /\ IF GeoDb(ip).found
                    THEN /\ location' = GeoDb(ip)
                         /\ local' = date
                         /\ Goto("query")
                    ELSE /\ Panic("geo")
                         /\ UNCHANGED <<location, local>>
    /\ UNCHANGED <<method, path, query, route, units, url, beresp, api_response,
                   queryParses, keyReads, fetches, views>>

\* `let query: QueryParams = req.get_query()?;` and the units match.
ParseQuery ==
    /\ pc = "query"
    /\ queryParses' = queryParses + 1
    /\ \E q \in QueryInputs :
         /\ query' = q
         /\ IF q.kind = "malformed"
            THEN ReturnErr("query") /\ UNCHANGED units
            ELSE units' = ResolveUnits(q) /\ Goto("key")
    /\ UNCHANGED <<method, path, client_ip, route, location, local, url, beresp,
                   api_response, geoLookups, keyReads, fetches, views>>

\* get_api_key() inside the format! of the URL.
ReadKey ==
    /\ pc = "key"
    /\ keyReads' = keyReads + 1
    /\ \E k \in KeyInputs :
         IF k.some
         THEN url' = BuildUrl(location, k.val, units) /\ Goto("send")
         ELSE Panic("api_key") /\ UNCHANGED url
    /\ UNCHANGED <<method, path, client_ip, query, route, location, local, units, beresp,
                   api_response, geoLookups, queryParses, fetches, views>>

\* A send that is repeated after a network failure.
SendRetrying ==
    /\ pc = "send"
    /\ fetches < 3
    /\ fetches' = fetches + 1
    /\ \/ Goto("send") /\ UNCHANGED beresp
       \/ \E st \in UpstreamStatuses, b \in Bodies :
            beresp' = [status |-> st, body |-> b] /\ Goto("decode")
    /\ UNCHANGED <<method, path, client_ip, query, route, location, local, units, url,
                   api_response, geoLookups, queryParses, keyReads, views>>

\* `let mut beresp = bereq.send(BACKEND_NAME)?;`
Send ==
    /\ pc = "send"
    /\ fetches' = fetches + 1
    /\ \/ ReturnErr("send") /\ UNCHANGED beresp
       \/ \E st \in UpstreamStatuses, b \in Bodies :
            beresp' = [status |-> st, body |-> b] /\ Goto("decode")
    /\ UNCHANGED <<method, path, client_ip, query, route, location, local, units, url,
                   api_response, geoLookups, queryParses, keyReads, views>>

\* `beresp.take_body_json::<APIResponse>()?`: the status is not looked at.
Decode ==
    /\ pc = "decode"
    /\ IF beresp.body.json
       THEN api_response' = beresp.body.value /\ Goto("view")
       ELSE ReturnErr("decode") /\ UNCHANGED api_response
    /\ UNCHANGED <<method, path, client_ip, query, route, location, local, units, url, beresp,
                   geoLookups, queryParses, keyReads, fetches, views>>

\* generate_view and the 200 response built from its result.
GenerateView ==
    /\ pc = "view"
    /\ views' = views + 1
    /\ IF ViewFault(api_response) = "none"
       THEN ReturnOk(ViewResp(Context(api_response, location, local, units)))
       ELSE Panic(ViewFault(api_response))
    /\ UNCHANGED <<method, path, client_ip, query, route, location, local, units, url, beresp,
                   api_response, geoLookups, queryParses, keyReads, fetches>>

\* A "/bg-image.jpg" arm that also reads the API key.
BgImageReadingKey ==
    /\ pc = "bg"
    /\ keyReads' = keyReads + 1
    /\ \E ip \in ClientIps, date \in LocalDates :
         /\ client_ip' = ip
         /\ IF ip = "none"
            THEN /\ Panic("client_ip")
                 /\ UNCHANGED <<location, local, geoLookups>>
            ELSE /\ geoLookups' = geoLookups + 1
                 /\ IF GeoDb(ip).found
                    THEN /\ location' = GeoDb(ip)
                         /\ local' = date
                         /\ ReturnOk(ImageResp(get_season(GeoDb(ip), date)))
                    ELSE /\ Panic("geo")
                         /\ UNCHANGED <<location, local>>
    /\ UNCHANGED <<method, path, query, route, units, url, beresp, api_response,
                   queryParses, fetches, views>>

\* The "/bg-image.jpg" arm.
BgImage ==
    /\ pc = "bg"
    /\ \E ip \in ClientIps, date \in LocalDates :
         /\ client_ip' = ip
         /\ IF ip = "none"
            THEN /\ Panic("client_ip")
                 /\ UNCHANGED <<location, local, geoLookups>>
            ELSE /\ geoLookups' = geoLookups + 1
                 /\ IF GeoDb(ip).found
                    THEN /\ location' = GeoDb(ip)
                         /\ local' = date
                         /\ ReturnOk(ImageResp(get_season(GeoDb(ip), date)))
                    ELSE /\ Panic("geo")
                         /\ UNCHANGED <<location, local>>
    /\ UNCHANGED <<method, path, query, route, units, url, beresp, api_response,
                   queryParses, keyReads, fetches, views>>

Next ==
    \/ CheckMethod
    \/ Dispatch
    \/ RootGeo
    \/ ParseQuery
    \/ ReadKey
    \/ Send
    \/ Decode
    \/ GenerateView
    \/ BgImage

Spec == Init /\ [][Next]_vars

\* ------------------------------------------------------------------ claims

\* The nearest integer to a value held in tenths, halves away from zero.
RoundNearest(t) == IF t >= 0 THEN (t + 5) \div 10 ELSE -(((-t) + 5) \div 10)

\* The snapshot indexes generate_view reads are all in range.
SnapshotComplete(api) ==
    /\ Len(api.daily) >= 4
    /\ Len(api.minutely) >= 1
    /\ Len(api.current.weather) >= 1
    /\ \A k \in 2..4 : Len(api.daily[k].weather) >= 1

\* C1: a request whose method is not GET is answered 405 with the fixed text
\* body, whatever its path, and the handler does nothing else for it: no
\* path match, no geo lookup, no query parsing, no API-key read, no upstream
\* fetch and no view, neither before nor after the 405.
C1_NonGetIs405 ==
    method # "GET" =>
        /\ pc \in {"method", "done"}
        /\ route = "none"
        /\ client_ip = "unset"
        /\ geoLookups = 0 /\ queryParses = 0 /\ keyReads = 0
        /\ fetches = 0 /\ views = 0
        /\ pc = "done" =>
             /\ outcome = "ok"
             /\ resp.status = 405
             /\ resp.body = [kind |-> "text", text |-> "This method is not allowed"]

C1_Witness ==
    /\ method = "POST" /\ path = "/bg-image.jpg"
    /\ pc = "done" /\ resp.status = 405

\* C2: for a GET request the arm taken is a function of the exact path: "/"
\* is the weather view, "/bg-image.jpg" the seasonal image, "/style.css" is
\* 200 text/css, "/feather.min.js" is 200 text/javascript, and any other
\* path is 404 with the fixed text body.  Exactly one arm is taken.
C2_DispatchByExactPath ==
    (method = "GET" /\ pc \notin {"method", "dispatch"}) =>
        /\ route \in {"root", "bg", "css", "js", "notfound"}
        /\ (route = "root") <=> (path = "/")
        /\ (route = "bg") <=> (path = "/bg-image.jpg")
        /\ (route = "css") <=> (path = "/style.css")
        /\ (route = "js") <=> (path = "/feather.min.js")
        /\ (path = "/" /\ resp # NoResp) =>
             (resp.status = 200 /\ resp.body.kind = "html")
        /\ (path = "/bg-image.jpg" /\ resp # NoResp) =>
             /\ resp.status = 200 /\ resp.ctype = "image/jpeg"
             /\ resp.body = [kind |-> "file",
                             file |-> SeasonImage(get_season(location, local))]
        /\ path = "/style.css" =>
             /\ pc = "done" /\ outcome = "ok"
             /\ resp.status = 200 /\ resp.ctype = "text/css"
             /\ resp.body = [kind |-> "file", file |-> "static/style.css"]
        /\ path = "/feather.min.js" =>
             /\ pc = "done" /\ outcome = "ok"
             /\ resp.status = 200 /\ resp.ctype = "text/javascript"
             /\ resp.body = [kind |-> "file", file |-> "static/feather.min.js"]
        /\ path \notin {"/", "/bg-image.jpg", "/style.css", "/feather.min.js"} =>
             /\ pc = "done" /\ outcome = "ok"
             /\ resp.status = 404
             /\ resp.body = [kind |-> "text",
                             text |-> "The page you requested could not be found"]

C2_Witness ==
    /\ method = "GET" /\ path = "/index.html"
    /\ pc = "done" /\ resp.status = 404

\* C3: once the query of GET / is parsed, the units token is "metric" when
\* the parameter is absent and is the parameter's value, unchanged, when it
\* is present; that token is the units value of the upstream URL, and
\* is_metric of the view is true exactly when the token is "metric".
C3_UnitsPassThrough ==
    (query.kind \in {"absent", "present"}) =>
        /\ query.kind = "absent" => units = "metric"
        /\ query.kind = "present" => units = query.val
        /\ url # NoUrl => url.units = units
        /\ resp.body.kind = "html" =>
             (resp.body.context.is_metric <=> (units = "metric"))

C3_Witness ==
    /\ query = [kind |-> "present", val |-> "bogus"]
    /\ pc = "done" /\ resp.body.kind = "html"
    /\ url.units = "bogus"
    /\ ~resp.body.context.is_metric

\* C4: when generate_view is given a snapshot with at least 4 daily entries,
\* at least 1 minutely entry and non-empty weather lists where it reads them,
\* the view has exactly 3 next days, and next day k is made of daily[k + 1]
\* alone (weekday of its dt, integer part of its temp.day, icon of its first
\* weather condition).
C4_NextDaysFromDaily123 ==
    (pc = "done" /\ views = 1 /\ SnapshotComplete(api_response)) =>
        /\ outcome = "ok"
        /\ resp.body.kind = "html"
        /\ DOMAIN resp.body.context.next_days = 1..3
        /\ \A k \in 1..3 :
             resp.body.context.next_days[k] =
                 [day |-> datetime_to_day(api_response.daily[k + 1].dt),
                  temp |-> AsI32(api_response.daily[k + 1].temp.day),
                  icon |-> get_feather_weather_icon(
                               api_response.daily[k + 1].weather[1].icon)]

C4_Witness ==
    /\ pc = "done" /\ views = 1 /\ outcome = "ok"
    /\ Len(api_response.daily) = 5
    /\ api_response.daily[1] # api_response.daily[2]
    /\ api_response.daily[5] # api_response.daily[4]
    /\ Len(api_response.daily[1].weather) = 0
    /\ resp.body.context.next_days[1].day = "Thu"

\* C5: a decoded snapshot that breaks the data contract (fewer than 4 daily
\* entries, no minutely entry, an empty weather list) makes the handler
\* answer 500; it does not index out of range and does not panic.
C5_ContractFailureIs500 ==
    (pc = "done" /\ views = 1 /\ ~SnapshotComplete(api_response)) =>
        (outcome = "ok" /\ resp.status = 500)

\* C6: on GET / and GET /bg-image.jpg, a missing client address or a geo
\* lookup without result gives a 502 response; the handler does not panic.
C6_LocationFailureIs502 ==
    (pc = "done" /\ client_ip # "unset"
       /\ (client_ip = "none" \/ ~GeoDb(client_ip).found)) =>
        (outcome = "ok" /\ resp.status = 502)

\* C7: on GET /, a failed send, a non-2xx upstream status and a body that
\* does not decode each end in a 502 or 504 response, never in a crash and,
\* for a non-2xx status, never in a rendered 200 view.
C7_UpstreamFailureIs502 ==
    (pc = "done" /\ fetches = 1
       /\ (beresp = NoBeresp
             \/ beresp.status \notin 200..299
             \/ ~beresp.body.json)) =>
        (outcome = "ok" /\ resp.status \in {502, 504})

\* C8: there is at most one upstream fetch attempt per request, a failed
\* send or decode is not followed by another attempt, a GET / that got its
\* location, query and API key makes exactly one attempt, and no response
\* exists before the handler is done (so none before the attempt for "/").
C8_AtMostOneFetch ==
    /\ fetches <= 1
    /\ resp # NoResp => pc = "done"
    /\ pc \in {"decode", "view"} => fetches = 1
    /\ (pc = "done" /\ keyReads = 1 /\ url # NoUrl) => fetches = 1
    /\ (path = "/" /\ method = "GET" /\ fetches = 0) => resp = NoResp

C8_Witness ==
    /\ pc = "done" /\ outcome = "err" /\ fault = "send"
    /\ fetches = 1 /\ keyReads = 1

\* C9: the temperatures of the view are the upstream temperatures rounded to
\* the nearest integer (20.6 gives 21, -3.7 gives -4).
C9_TemperaturesRounded ==
    (pc = "done" /\ resp.body.kind = "html") =>
        /\ resp.body.context.temp = RoundNearest(api_response.current.temp)
        /\ \A k \in 1..3 :
             resp.body.context.next_days[k].temp =
                 RoundNearest(api_response.daily[k + 1].temp.day)

\* C10: a non-GET request and a GET of a path other than "/" and
\* "/bg-image.jpg" do no geo lookup, no API-key read and no fetch; GET
\* /bg-image.jpg does a geo lookup (when the client address is there) and
\* never reads the key nor fetches; the key is read and the fetch is made
\* only by GET /, after a geo lookup that found the location and after the
\* query was parsed.
C10_EffectsConfined ==
    /\ (method # "GET" \/ path \notin {"/", "/bg-image.jpg"}) =>
         /\ client_ip = "unset" /\ geoLookups = 0 /\ queryParses = 0
         /\ keyReads = 0 /\ fetches = 0 /\ views = 0
    /\ path = "/bg-image.jpg" =>
         /\ queryParses = 0 /\ keyReads = 0 /\ fetches = 0 /\ views = 0
         /\ (pc = "done" /\ method = "GET" /\ client_ip # "none") =>
              geoLookups = 1
    /\ (keyReads > 0 \/ fetches > 0) =>
         /\ method = "GET" /\ path = "/"
         /\ geoLookups = 1 /\ location.found
         /\ queryParses = 1 /\ query.kind \in {"absent", "present"}
    /\ fetches > 0 => (keyReads = 1 /\ url # NoUrl)

C10_Witness ==
    /\ method = "GET" /\ path = "/bg-image.jpg"
    /\ pc = "done" /\ outcome = "ok"
    /\ geoLookups = 1 /\ keyReads = 0 /\ fetches = 0

============================================================================
